---------------------------- MODULE Spec2Model ----------------------------
(***************************************************************************)
(* Car Advisor API (src/main.py): a catalog loaded once at start-up, four  *)
(* helpers (calculate_emi, get_car_by_name, get_cars_by_budget,            *)
(* apply_safety_rules), the keyword intent detector and the request        *)
(* handlers built from them.                                               *)
(*                                                                         *)
(* Representation.                                                         *)
(*  - A Python str is a sequence of one-character strings, so that         *)
(*    str.lower() and the substring test `in` are computed, not assumed.   *)
(*  - An Optional value is None (<<>>) or Some(v) (<<v>>).                 *)
(*  - Prices, principals, budgets and incomes are whole rupees.  Amounts   *)
(*    the code rounds to 2 decimals (emi_amount, total_payment,            *)
(*    total_interest, and the emi given to /rules) are whole paise.        *)
(*  - annual_rate is in hundredths of a percent (9.5 % is 950).            *)
(*  - The float arithmetic of calculate_emi is done in fixed point with    *)
(*    8 decimal digits (ONE); a*b/c is formed by MulDivQR so that no       *)
(*    intermediate value leaves 32-bit integers.  The amounts agree with   *)
(*    the floats to within a few paise.                                    *)
(***************************************************************************)
EXTENDS Integers, Sequences, FiniteSets, TLC

VARIABLES
    data_file,   \* data/cars.json as it was when the process started
    cars_data,   \* the module-level catalog list
    request,     \* the request being answered
    response     \* what the handler returned (or the fault it raised)

vars == <<data_file, cars_data, request, response>>

---------------------------------------------------------------------------
(* Optional values *)

None == <<>>

Some(v) == <<v>>

\* Python truthiness of an Optional[float] in `x or default`:
\* None and 0.0 are both falsy.
PyOr(opt, default) == IF opt = None \/ opt[1] = 0 THEN default ELSE opt[1]

---------------------------------------------------------------------------
(* Strings *)

UpperLetters ==
    <<"A","B","C","D","E","F","G","H","I","J","K","L","M",
      "N","O","P","Q","R","S","T","U","V","W","X","Y","Z">>

LowerLetters ==
    <<"a","b","c","d","e","f","g","h","i","j","k","l","m",
      "n","o","p","q","r","s","t","u","v","w","x","y","z">>

\* the lower-case letter of each upper-case letter
LowerOf ==
    [c \in {UpperLetters[i] : i \in DOMAIN UpperLetters} |->
        LowerLetters[CHOOSE i \in DOMAIN UpperLetters : UpperLetters[i] = c]]

LowerChar(c) == IF c \in DOMAIN LowerOf THEN LowerOf[c] ELSE c

\* str.lower()
lower(s) == [i \in 1..Len(s) |-> LowerChar(s[i])]

\* `sub in s` for two str
Contains(sub, s) ==
    \E i \in 0..(Len(s) - Len(sub)) : SubSeq(s, i + 1, i + Len(sub)) = sub


---------------------------------------------------------------------------
(* Fixed-point arithmetic standing for the floats of calculate_emi *)

\* 1.0 in fixed point
ONE == 10^8

Abs(x) == IF x < 0 THEN -x ELSE x

\* <<q, r>> with a*b = q*c + r and 0 <= r < c, for a, b >= 0 and c > 0,
\* by doubling over the bits of b.
RECURSIVE MulDivQR(_, _, _)
MulDivQR(a, b, c) ==
    IF b = 0 THEN <<0, 0>>
    ELSE LET h  == MulDivQR(a, b \div 2, c)
             r2 == 2 * h[2] + (b % 2) * (a % c)
         IN  <<2 * h[1] + (b % 2) * (a \div c) + (r2 \div c), r2 % c>>

\* a*b/c rounded to the nearest integer, for a of either sign
MulDivRound(a, b, c) ==
    LET qr == MulDivQR(Abs(a), b, c)
        q  == IF 2 * qr[2] >= c THEN qr[1] + 1 ELSE qr[1]
    IN  IF a < 0 THEN -q ELSE q

\* x ** n for fixed-point x and a whole number n, by squaring
RECURSIVE Pow(_, _)
Pow(x, n) ==
    IF n = 0 THEN ONE
    ELSE LET h  == Pow(x, n \div 2)
             sq == MulDivRound(h, h, ONE)
         IN  IF n % 2 = 1 THEN MulDivRound(sq, x, ONE) ELSE sq

---------------------------------------------------------------------------
(* EMI calculator *)

ZeroDivisionError == [raised |-> "ZeroDivisionError"]

\* Variant: a zero tenure is taken as one month instead of dividing by it.
calculate_emi_min_tenure(principal, annual_rate, tenure_years) ==
    LET monthly_rate  == MulDivRound(annual_rate, ONE, 12 * 100 * 100)
        tenure_months == IF tenure_years = 0 THEN 1 ELSE tenure_years * 12
        growth        == Pow(ONE + monthly_rate, tenure_months)
        emi           == IF monthly_rate = 0
                         THEN MulDivRound(principal, 1000, tenure_months)
                         ELSE MulDivRound(principal,
                                  MulDivRound(monthly_rate, growth, growth - ONE),
                                  ONE \div 1000)
        total_payment == MulDivRound(emi, tenure_months, 10)
    IN  [raised         |-> "",
         emi_amount     |-> MulDivRound(emi, 1, 10),
         total_payment  |-> total_payment,
         total_interest |-> total_payment - principal * 100]

\* principal in rupees, annual_rate in hundredths of a percent,
\* tenure_years a whole number; the result fields are in paise.
\* emi is kept in thousandths of a rupee until it is rounded.
calculate_emi(principal, annual_rate, tenure_years) ==
    LET monthly_rate  == MulDivRound(annual_rate, ONE, 12 * 100 * 100)
        tenure_months == tenure_years * 12
        growth        == Pow(ONE + monthly_rate, tenure_months)
        faults        == IF monthly_rate = 0 THEN tenure_months = 0
                                             ELSE growth - ONE = 0
        emi           == IF monthly_rate = 0
                         THEN MulDivRound(principal, 1000, tenure_months)
                         ELSE MulDivRound(principal,
                                  MulDivRound(monthly_rate, growth, growth - ONE),
                                  ONE \div 1000)
        total_payment == MulDivRound(emi, tenure_months, 10)
    IN  IF faults THEN ZeroDivisionError
        ELSE [raised         |-> "",
              emi_amount     |-> MulDivRound(emi, 1, 10),
              total_payment  |-> total_payment,
              total_interest |-> total_payment - principal * 100]

---------------------------------------------------------------------------
(* Car database tools *)

\* the indices of the records of cars whose name contains name,
\* both lower-cased
NameMatches(cars, name) ==
    LET name_lower == lower(name)
    IN  {i \in 1..Len(cars) : Contains(name_lower, lower(cars[i].name))}

\* Variant: the last matching record instead of the first.
get_car_by_name_last(cars, name) ==
    LET matches == NameMatches(cars, name)
    IN  IF matches = {} THEN None
        ELSE Some(cars[CHOOSE i \in matches : \A j \in matches : i >= j])

get_car_by_name(cars, name) ==
    LET matches == NameMatches(cars, name)
    IN  IF matches = {} THEN None
        ELSE Some(cars[CHOOSE i \in matches : \A j \in matches : i <= j])

\* Variant: a record priced exactly max_price is left out.
RECURSIVE get_cars_by_budget_strict(_, _)
get_cars_by_budget_strict(cars, max_price) ==
    IF cars = <<>> THEN <<>>
    ELSE (IF Head(cars).price < max_price THEN <<Head(cars)>> ELSE <<>>)
         \o get_cars_by_budget_strict(Tail(cars), max_price)

RECURSIVE get_cars_by_budget(_, _)
get_cars_by_budget(cars, max_price) ==
    IF cars = <<>> THEN <<>>
    ELSE (IF Head(cars).price <= max_price THEN <<Head(cars)>> ELSE <<>>)
         \o get_cars_by_budget(Tail(cars), max_price)

---------------------------------------------------------------------------
(* Rule engine *)

\* emi_amount in paise, user_income an Optional of rupees per year.
\* emi_amount <= (user_income / 12) * 0.3 compares emi_amount/100 rupees
\* with user_income/40 rupees, that is 2*emi_amount with 5*user_income.
\* Variant: an EMI exactly at the threshold is refused.
apply_safety_rules_strict(emi_amount, user_income) ==
    IF user_income = None
    THEN [approved |-> TRUE, message |-> "income not provided"]
    ELSE IF 2 * emi_amount < 5 * user_income[1]
         THEN [approved |-> TRUE, message |-> "safe emi"]
         ELSE [approved |-> FALSE, message |-> "risky emi"]

apply_safety_rules(emi_amount, user_income) ==
    IF user_income = None
    THEN [approved |-> TRUE, message |-> "income not provided"]
    ELSE IF 2 * emi_amount <= 5 * user_income[1]
         THEN [approved |-> TRUE, message |-> "safe emi"]
         ELSE [approved |-> FALSE, message |-> "risky emi"]

---------------------------------------------------------------------------
(* Intent detection *)

EmiWords == <<<<"e","m","i">>, <<"l","o","a","n">>, <<"f","i","n","a","n","c","e">>, <<"m","o","n","t","h","l","y">>, <<"e","m","i">>>>

BudgetWords == <<<<"b","u","d","g","e","t">>, <<"l","a","k","h","s">>, <<"c","r","o","r","e">>, <<"p","r","i","c","e"," ","u","n","d","e","r">>>>

CompareWords == <<<<"c","o","m","p","a","r","e">>, <<"v","s">>, <<"v","e","r","s","u","s">>>>

SearchWords == <<<<"f","i","n","d">>, <<"s","h","o","w">>, <<"w","h","i","c","h">>>>

\* any(word in query_lower for word in words)
AnyWordIn(words, query_lower) ==
    \E k \in DOMAIN words : Contains(words[k], query_lower)

\* Variant: the budget keywords are tried before the EMI keywords.
detect_intent_budget_first(query) ==
    LET query_lower == lower(query)
    IN  IF AnyWordIn(BudgetWords, query_lower) THEN "budget_search"
        ELSE IF AnyWordIn(EmiWords, query_lower) THEN "emi_calculation"
        ELSE IF AnyWordIn(CompareWords, query_lower) THEN "car_comparison"
        ELSE IF AnyWordIn(SearchWords, query_lower) THEN "car_search"
        ELSE "general_info"

detect_intent(query) ==
    LET query_lower == lower(query)
    IN  IF AnyWordIn(EmiWords, query_lower) THEN "emi_calculation"
        ELSE IF AnyWordIn(BudgetWords, query_lower) THEN "budget_search"
        ELSE IF AnyWordIn(CompareWords, query_lower) THEN "car_comparison"
        ELSE IF AnyWordIn(SearchWords, query_lower) THEN "car_search"
        ELSE "general_info"

---------------------------------------------------------------------------
(* Dispatch *)

\* principal = query_data.max_budget or 1500000
DefaultPrincipal == 1500000

\* calculate_emi(principal, 9.5, 5): 9.5 % in hundredths of a percent
QueryRate == 950

QueryTenure == 5

\* get_cars_by_budget(query_data.max_budget or 2000000)
DefaultBudget == 2000000

Approved(message) == [approved |-> TRUE, message |-> message]

\* Variant: a car search that finds nothing is not approved.
process_user_query_search_checked(cars, query_data) ==
    LET intent     == detect_intent(query_data.query)
        emi_result == calculate_emi(
                          PyOr(query_data.max_budget, DefaultPrincipal),
                          QueryRate, QueryTenure)
        found      == get_car_by_name(cars, query_data.query)
        Result(tool_result, safety_result) ==
            [raised       |-> "",
             intent       |-> intent,
             user_query   |-> query_data.query,
             tool_output  |-> tool_result,
             safety_check |-> safety_result]
    IN  CASE intent = "emi_calculation" ->
                 IF emi_result.raised # "" THEN emi_result
                 ELSE Result(emi_result,
                             apply_safety_rules(emi_result.emi_amount,
                                                query_data.user_income))
          [] intent = "budget_search" ->
                 Result(get_cars_by_budget(cars,
                            PyOr(query_data.max_budget, DefaultBudget)),
                        Approved("budget search completed"))
          [] intent = "car_comparison" ->
                 Result([message |-> "comparison feature coming"],
                        Approved("comparison ready"))
          [] intent = "car_search" ->
                 Result(found,
                        [approved |-> found # None, message |-> "car found"])
          [] OTHER ->
                 Result([cars_count |-> Len(cars)],
                        Approved("general info"))

\* The dictionary process_user_query returns, or the exception that
\* leaves it.  recommended_action is a function of intent alone and
\* is left out.
process_user_query(cars, query_data) ==
    LET intent     == detect_intent(query_data.query)
        emi_result == calculate_emi(
                          PyOr(query_data.max_budget, DefaultPrincipal),
                          QueryRate, QueryTenure)
        Result(tool_result, safety_result) ==
            [raised       |-> "",
             intent       |-> intent,
             user_query   |-> query_data.query,
             tool_output  |-> tool_result,
             safety_check |-> safety_result]
    IN  CASE intent = "emi_calculation" ->
                 IF emi_result.raised # "" THEN emi_result
                 ELSE Result(emi_result,
                             apply_safety_rules(emi_result.emi_amount,
                                                query_data.user_income))
          [] intent = "budget_search" ->
                 Result(get_cars_by_budget(cars,
                            PyOr(query_data.max_budget, DefaultBudget)),
                        Approved("budget search completed"))
          [] intent = "car_comparison" ->
                 Result([message |-> "comparison feature coming"],
                        Approved("comparison ready"))
          [] intent = "car_search" ->
                 Result(get_car_by_name(cars, query_data.query),
                        Approved("car found"))
          [] OTHER ->
                 Result([cars_count |-> Len(cars)],
                        Approved("general info"))

---------------------------------------------------------------------------
(* Inputs *)

\* longest catalog
MaxCars == 2

\* most fragments in one query
MaxWords == 2

MarutiAlto == [name |-> <<"M","a","r","u","t","i"," ","A","l","t","o">>, price |-> 450000]

AltoK10 == [name |-> <<"A","l","t","o"," ","K","1","0">>, price |-> 2000000]

Pathfinder == [name |-> <<"N","i","s","s","a","n"," ","P","a","t","h","f","i","n","d","e","r">>, price |-> 2500000]

CarPool == {MarutiAlto, AltoK10, Pathfinder}

\* the catalogs data/cars.json may hold: up to MaxCars distinct records
Catalogs ==
    UNION {{c \in [1..n -> CarPool] : \A i, j \in 1..n : c[i] = c[j] => i = j}
           : n \in 0..MaxCars}

Fragments ==
    {<<"E","M","I">>, <<"c","o","m","p","a","r","e"," ">>, <<"b","u","d","g","e","t">>,
     <<"P","r","i","c","e"," ","u","n","d","e","r">>,
     <<"f","i","n","d">>, <<" ","a","l","t","o">>}

RECURSIVE Concats(_)
Concats(n) ==
    IF n = 0 THEN {<<>>}
    ELSE Concats(n - 1) \cup {q \o f : q \in Concats(n - 1), f \in Fragments}

Queries == Concats(MaxWords)

Incomes == {None, Some(0), Some(600000)}

Budgets == {None, Some(0), Some(450000)}

Names == {<<"a","l","t","o">>, <<"A","L","T","O">>, <<"A","l","t","o"," ","K">>, <<"m","a","r","u","t","i">>, <<"a">>, <<"s","w","i","f","t">>, <<"P","a","t","h","F","i","n","d","e","r">>}

Prices == {0, 449999, 450000, 2000000, 3000000}

Principals == {-1000, 0, 450000, 1500000}

Rates == {0, 950, 1200}

Tenures == {0, 1, 5}

\* emi amounts for /rules, in paise: 15000.00 is 30 % of 600000 / 12
Emis == {0, 1500000, 1500001}

RuleIncomes == {0, 600000}

---------------------------------------------------------------------------
(* The process *)

\* between two requests: request-scoped objects do not outlive the request
NoRequest == [endpoint |-> "none"]

NoResponse == [status |-> 0]

\* the application serves one request at a time
Waiting == request = NoRequest

\* module level: cars_data = [], replaced by the file's array if it exists
Init ==
    /\ data_file \in {None} \cup {Some(c) : c \in Catalogs}
    /\ cars_data = IF data_file = None THEN <<>> ELSE data_file[1]
    /\ request = NoRequest
    /\ response = NoResponse

Ok(body) == [status |-> 200, body |-> body]

\* an exception that leaves the handler
ServerError(raised) == [status |-> 500, raised |-> raised]

Reply(result) ==
    IF result.raised # "" THEN ServerError(result.raised) ELSE Ok(result)

\* GET /
root ==
    /\ Waiting
    /\ request' = [endpoint |-> "root"]
    /\ response' = Ok([cars_count |-> Len(cars_data)])
    /\ UNCHANGED <<data_file, cars_data>>

\* GET /cars
get_cars ==
    /\ Waiting
    /\ request' = [endpoint |-> "cars"]
    /\ response' = Ok([cars |-> cars_data])
    /\ UNCHANGED <<data_file, cars_data>>

\* GET /emi/{principal}/{rate}/{tenure}
test_emi(principal, rate, tenure) ==
    /\ Waiting
    /\ request' = [endpoint |-> "emi", principal |-> principal,
                   rate |-> rate, tenure |-> tenure]
    /\ response' = Reply(calculate_emi(principal, rate, tenure))
    /\ UNCHANGED <<data_file, cars_data>>

\* GET /car/{name}
test_car(name) ==
    /\ Waiting
    /\ request' = [endpoint |-> "car", name |-> name]
    /\ response' = LET car == get_car_by_name(cars_data, name)
                   IN  Ok(IF car = None THEN [error |-> "Car not found"]
                                        ELSE car[1])
    /\ UNCHANGED <<data_file, cars_data>>

\* Variant: the handler filters the catalog in place.
test_budget_in_place(max_price) ==
    /\ Waiting
    /\ request' = [endpoint |-> "budget", max_price |-> max_price]
    /\ cars_data' = get_cars_by_budget(cars_data, max_price)
    /\ response' = Ok(cars_data')
    /\ UNCHANGED data_file

\* GET /cars/budget/{max_price}
test_budget(max_price) ==
    /\ Waiting
    /\ request' = [endpoint |-> "budget", max_price |-> max_price]
    /\ response' = Ok(get_cars_by_budget(cars_data, max_price))
    /\ UNCHANGED <<data_file, cars_data>>

\* GET /rules/{emi}/{income}
test_rules(emi, income) ==
    /\ Waiting
    /\ request' = [endpoint |-> "rules", emi |-> emi, income |-> income]
    /\ response' = Ok(apply_safety_rules(emi, Some(income)))
    /\ UNCHANGED <<data_file, cars_data>>

\* POST /process_query
process_query(query, user_income, max_budget) ==
    /\ Waiting
    /\ request' = [endpoint |-> "process_query", query |-> query,
                   user_income |-> user_income, max_budget |-> max_budget]
    /\ response' = Reply(process_user_query(cars_data, request'))
    /\ UNCHANGED <<data_file, cars_data>>

\* the response is sent and the application waits for the next request
respond ==
    /\ ~Waiting
    /\ request' = NoRequest
    /\ response' = NoResponse
    /\ UNCHANGED <<data_file, cars_data>>

Next ==
    \/ root
    \/ get_cars
    \/ \E p \in Principals, r \in Rates, t \in Tenures : test_emi(p, r, t)
    \/ \E n \in Names : test_car(n)
    \/ \E m \in Prices : test_budget(m)
    \/ \E e \in Emis, i \in RuleIncomes : test_rules(e, i)
    \/ \E q \in Queries, i \in Incomes, b \in Budgets : process_query(q, i, b)
    \/ respond

Spec == Init /\ [][Next]_vars

---------------------------------------------------------------------------
(* Properties *)

Answered(endpoint) == request.endpoint = endpoint /\ response.status = 200

\* a process_query request answered with the given intent
AnsweredIntent(intent) ==
    Answered("process_query") /\ response.body.intent = intent

\* the catalog the process loaded when it started
LoadedCatalog == IF data_file = None THEN <<>> ELSE data_file[1]

InCatalog(car) == \E i \in DOMAIN cars_data : cars_data[i] = car

\* emi (paise) <= (income / 12) * 0.3 (rupees), over the rationals
WithinThirtyPercent(emi, income) == emi * 12 * 10 <= income * 3 * 100

\* The keyword sets in their priority order.
IntentOrder ==
    <<[intent |-> "emi_calculation",
       words  |-> {<<"e","m","i">>, <<"l","o","a","n">>, <<"f","i","n","a","n","c","e">>, <<"m","o","n","t","h","l","y">>}],
      [intent |-> "budget_search",
       words  |-> {<<"b","u","d","g","e","t">>, <<"l","a","k","h","s">>, <<"c","r","o","r","e">>, <<"p","r","i","c","e"," ","u","n","d","e","r">>}],
      [intent |-> "car_comparison",
       words  |-> {<<"c","o","m","p","a","r","e">>, <<"v","s">>, <<"v","e","r","s","u","s">>}],
      [intent |-> "car_search",
       words  |-> {<<"f","i","n","d">>, <<"s","h","o","w">>, <<"w","h","i","c","h">>}]>>

MatchedCategories(query) ==
    LET folded == lower(query)
    IN  {k \in DOMAIN IntentOrder :
            \E w \in IntentOrder[k].words : Contains(w, folded)}

HighestPriorityIntent(query) ==
    LET matched == MatchedCategories(query)
    IN  IF matched = {} THEN "general_info"
        ELSE IntentOrder[CHOOSE k \in matched :
                             \A j \in matched : k <= j].intent

\* C1: every query is classified as the highest-priority category one of
\* whose keywords is a substring of the lower-cased query, and as
\* general_info exactly when no keyword of any set is.
C1_IntentByPriority ==
    Answered("process_query") =>
        /\ response.body.intent = HighestPriorityIntent(request.query)
        /\ (response.body.intent = "general_info"
               <=> MatchedCategories(request.query) = {})

\* C1: a query with both "emi" and "compare" was answered emi_calculation.
C1_Witness ==
    /\ AnsweredIntent("emi_calculation")
    /\ Contains(<<"e","m","i">>, lower(request.query))
    /\ Contains(<<"c","o","m","p","a","r","e">>, lower(request.query))

\* C2: the query "find alto", without income or budget, against a catalog
\* holding the record "Maruti Alto" priced 450000 is answered with intent
\* car_search and that record as tool_output.
C2_FindAltoReturnsRecord ==
    (/\ Answered("process_query")
     /\ request.query = <<"f","i","n","d"," ","a","l","t","o">>
     /\ request.user_income = None
     /\ request.max_budget = None
     /\ InCatalog(MarutiAlto))
    => /\ response.body.intent = "car_search"
       /\ response.body.tool_output = Some(MarutiAlto)

\* C3: an emi_calculation request computes the EMI at rate 9.5 over 5
\* years on max_budget whenever max_budget is given (0 included), and on
\* 1,500,000 only when it is absent.
C3_PrincipalIsMaxBudgetWhenGiven ==
    AnsweredIntent("emi_calculation") =>
        response.body.tool_output =
            calculate_emi(IF request.max_budget = None
                          THEN DefaultPrincipal
                          ELSE request.max_budget[1],
                          QueryRate, QueryTenure)

\* C4: a budget_search request filters the catalog with threshold
\* max_budget whenever max_budget is given (0 included), and with
\* 2,000,000 only when it is absent.
C4_ThresholdIsMaxBudgetWhenGiven ==
    AnsweredIntent("budget_search") =>
        LET threshold == IF request.max_budget = None
                         THEN DefaultBudget
                         ELSE request.max_budget[1]
            Affordable(car) == car.price <= threshold
        IN  response.body.tool_output = SelectSeq(cars_data, Affordable)

\* C5: the budget filter returns exactly the catalog records priced
\* <= max_price, in catalog order, and filtering its result again with the
\* same threshold gives the same sequence.
C5_BudgetFilterExact ==
    Answered("budget") =>
        LET Affordable(car) == car.price <= request.max_price
        IN  /\ response.body = SelectSeq(cars_data, Affordable)
            /\ get_cars_by_budget(response.body, request.max_price)
                   = response.body

\* C5: a filter at 450000 kept the record priced exactly 450000 and
\* dropped another.
C5_Witness ==
    /\ Answered("budget")
    /\ request.max_price = 450000
    /\ \E i \in DOMAIN response.body : response.body[i] = MarutiAlto
    /\ Len(response.body) < Len(cars_data)

\* C6: the name lookup returns the record of lowest catalog index whose
\* name contains the string case-insensitively, nothing when there is
\* none, and the same for any string differing only in letter case.
C6_FirstMatchAnyCase ==
    /\ AnsweredIntent("car_search") =>
        LET matches == {i \in DOMAIN cars_data :
                           Contains(lower(request.query),
                                    lower(cars_data[i].name))}
        IN  /\ matches = {} => response.body.tool_output = None
            /\ \A i \in matches :
                   (\A j \in matches : i <= j) =>
                       response.body.tool_output = Some(cars_data[i])
    /\ Answered("car") =>
        LET matches == {i \in DOMAIN cars_data :
                           Contains(lower(request.name),
                                    lower(cars_data[i].name))}
        IN  /\ matches = {} => response.body = [error |-> "Car not found"]
            /\ \A i \in matches :
                   (\A j \in matches : i <= j) => response.body = cars_data[i]
            /\ \A other \in Names :
                   lower(other) = lower(request.name) =>
                       \/ /\ get_car_by_name(cars_data, other) = None
                          /\ response.body = [error |-> "Car not found"]
                       \/ get_car_by_name(cars_data, other)
                              = Some(response.body)

\* C6: "ALTO" looked up in a catalog with two records that match it
\* returned the first one.
C6_Witness ==
    /\ Answered("car")
    /\ request.name = <<"A","L","T","O">>
    /\ InCatalog(MarutiAlto) /\ InCatalog(AltoK10)
    /\ response.body = cars_data[1]

\* C7: the safety rule approves when income is absent, and with an income
\* (0 included) approves exactly when emi_amount <= (income/12)*0.3,
\* equality approved.
C7_ApprovedIffWithinThirtyPercent ==
    /\ Answered("rules") =>
           (response.body.approved
                <=> WithinThirtyPercent(request.emi, request.income))
    /\ AnsweredIntent("emi_calculation") =>
           (response.body.safety_check.approved
                <=> \/ request.user_income = None
                    \/ WithinThirtyPercent(
                           response.body.tool_output.emi_amount,
                           request.user_income[1]))

\* C7: an EMI of 15000.00 against an income of 600000 was approved.
C7_Witness ==
    /\ Answered("rules")
    /\ request.emi = 1500000
    /\ request.income = 600000
    /\ response.body.approved

\* C8: whatever was requested, the catalog is the sequence loaded at
\* start-up (empty when the file was absent), and the cars_count of / and
\* of general_info is its length.
C8_CatalogIsLoadedCatalog ==
    /\ cars_data = LoadedCatalog
    /\ Answered("root") => response.body.cars_count = Len(LoadedCatalog)
    /\ AnsweredIntent("general_info") =>
           response.body.tool_output.cars_count = Len(LoadedCatalog)

\* C8: a budget request that kept only part of the catalog was answered.
C8_Witness ==
    /\ Answered("budget")
    /\ Len(response.body) < Len(cars_data)
    /\ cars_data = LoadedCatalog

\* C9: safety_check.approved is false only for an emi_calculation with an
\* income whose EMI exceeds (income/12)*0.3; every other intent is
\* approved, a car_search that finds nothing included.
C9_RefusedOnlyForRiskyEmi ==
    Answered("process_query") =>
        /\ ~response.body.safety_check.approved =>
               /\ response.body.intent = "emi_calculation"
               /\ request.user_income # None
               /\ ~WithinThirtyPercent(response.body.tool_output.emi_amount,
                                       request.user_income[1])
        /\ response.body.intent # "emi_calculation" =>
               response.body.safety_check.approved

\* C9: a car_search with income 0 that found no record was approved.
C9_Witness ==
    /\ AnsweredIntent("car_search")
    /\ request.user_income = Some(0)
    /\ response.body.tool_output = None
    /\ response.body.safety_check.approved

\* C10: GET /emi with tenure 0 ends in a division-by-zero fault for every
\* principal and rate, and process_query never faults.
C10_ZeroTenureFaults ==
    /\ (request.endpoint = "emi" /\ request.tenure = 0) =>
           response = ServerError("ZeroDivisionError")
    /\ request.endpoint = "process_query" => response.status = 200

\* C10: a zero tenure at a non-zero rate faulted.
C10_Witness ==
    /\ request.endpoint = "emi"
    /\ request.tenure = 0
    /\ request.rate # 0
    /\ response.status = 500

============================================================================
